---------------------------- MODULE Spec2Model ----------------------------
(***************************************************************************)
(* Model of the two prompt-orchestration backends of dermodyai-nou-demo:   *)
(*   bd-research-agent  (score_opportunities, stream_brief, /api/brief)    *)
(*   proposal-agent     (extract_requirements, match_capabilities,         *)
(*                       stream_draft, /api/draft)                         *)
(*                                                                         *)
(* Text is a sequence of one-character strings.  A capital letter A..F is  *)
(* a lexeme: it stands for the complete text of one JSON value (an object  *)
(* literal or a number) and is treated as an indivisible unit of text.     *)
(***************************************************************************)
EXTENDS Integers, Sequences, FiniteSets, TLC

(***************************************************************************)
(* Bounds of the model                                                     *)
(***************************************************************************)
MaxAwards == 31
MaxOpps == 2
MaxItems == 3
MaxPadOver == 2
MaxScored == 24
MaxFrags == 2
MaxResults == 11
MaxMarketScored == 1

(***************************************************************************)
(* Program constants                                                       *)
(***************************************************************************)
BatchLimit == 30
MarkerLen == 300
TopN == 15
TopResults == 10

Min(a, b) == IF a <= b THEN a ELSE b

Take(s, n) == SubSeq(s, 1, Min(n, Len(s)))

(***************************************************************************)
(* Text helpers: str.strip() and the two re.sub calls that remove a        *)
(* Markdown code fence.                                                    *)
(***************************************************************************)
Ws == {" ", "\n"}

\* the backquote character is written "~" in this module
Bq == "~"

Fence == <<Bq, Bq, Bq>>

JsonTag == <<"j", "s", "o", "n">>

HasAt(s, i, w) ==
    /\ i >= 1
    /\ i + Len(w) - 1 <= Len(s)
    /\ \A k \in 1..Len(w) : s[i + k - 1] = w[k]

RECURSIVE SkipWs(_, _)
SkipWs(s, i) == IF i <= Len(s) /\ s[i] \in Ws THEN SkipWs(s, i + 1) ELSE i

RECURSIVE SkipWsBack(_, _)
SkipWsBack(s, i) == IF i >= 1 /\ s[i] \in Ws THEN SkipWsBack(s, i - 1) ELSE i

\* str.strip(): drop leading and trailing whitespace
Strip(s) == SubSeq(s, SkipWs(s, 1), SkipWsBack(s, Len(s)))

\* mutant: the language tag is not consumed with the fence
SubOpenFence_KeepTag(s) ==
    IF HasAt(s, 1, Fence) THEN SubSeq(s, SkipWs(s, 4), Len(s)) ELSE s

\* re.sub(r"^~~~(?:json)?\s*", "", raw): no flags, so the tag is matched
\* in lower case only
SubOpenFence(s) ==
    IF HasAt(s, 1, Fence)
    THEN LET j == IF HasAt(s, 4, JsonTag) THEN 8 ELSE 4
         IN  SubSeq(s, SkipWs(s, j), Len(s))
    ELSE s

\* re.sub(r"\s*~~~$", "", raw): "$" is the end of the text, or the position
\* before a final newline
SubCloseFence(s) ==
    IF HasAt(s, Len(s) - 2, Fence)
    THEN SubSeq(s, 1, SkipWsBack(s, Len(s) - 3))
    ELSE IF Len(s) >= 1 /\ s[Len(s)] = "\n" /\ HasAt(s, Len(s) - 3, Fence)
         THEN Append(SubSeq(s, 1, SkipWsBack(s, Len(s) - 4)), "\n")
         ELSE s

\* raw = response.content[0].text.strip(), then both substitutions
Defence(reply) == SubCloseFence(SubOpenFence(Strip(reply)))

(***************************************************************************)
(* JSON values.  Every value of the model is a record of one shape.        *)
(***************************************************************************)
JObject(id, scoreType, score, priority) ==
    [kind |-> "object", id |-> id, scoreType |-> scoreType, score |-> score,
     priority |-> priority, marker |-> FALSE, text |-> <<>>]

JNumber(n) ==
    [kind |-> "number", id |-> n, scoreType |-> "missing", score |-> 0,
     priority |-> "missing", marker |-> FALSE, text |-> <<>>]

\* {"parse_error": text}
ParseError(text) ==
    [kind |-> "object", id |-> 0, scoreType |-> "missing", score |-> 0,
     priority |-> "missing", marker |-> TRUE, text |-> text]

Lexemes == {"A", "B", "C", "D", "E", "F"}

\* the JSON value each lexeme is the text of
LexValue(l) ==
    CASE l = "A" -> JObject(1, "int", 5, "High")
      [] l = "B" -> JObject(2, "int", 5, "Low")
      [] l = "C" -> JObject(3, "int", 9, "Medium")
      [] l = "D" -> JObject(4, "missing", 0, "Monitor")
      [] l = "E" -> JObject(5, "null", 0, "missing")
      [] OTHER   -> JNumber(7)

ParseFail == [ok |-> FALSE, isList |-> FALSE, items |-> <<>>]

\* the elements of an array after "[": st is "first" (value or "]"),
\* "value" (a value must follow a comma) or "sep" ("," or "]")
RECURSIVE ParseArray(_, _, _, _)
ParseArray(s, i, acc, st) ==
    LET k == SkipWs(s, i) IN
    IF k > Len(s) THEN ParseFail
    ELSE IF st = "sep"
         THEN IF s[k] = "," THEN ParseArray(s, k + 1, acc, "value")
              ELSE IF s[k] = "]" /\ SkipWs(s, k + 1) > Len(s)
                   THEN [ok |-> TRUE, isList |-> TRUE, items |-> acc]
                   ELSE ParseFail
         ELSE IF s[k] \in Lexemes
              THEN ParseArray(s, k + 1, Append(acc, LexValue(s[k])), "sep")
              ELSE IF st = "first" /\ s[k] = "]" /\ SkipWs(s, k + 1) > Len(s)
                   THEN [ok |-> TRUE, isList |-> TRUE, items |-> acc]
                   ELSE ParseFail

\* json.loads(raw): ok = FALSE stands for json.JSONDecodeError
JsonLoads(s) ==
    LET k == SkipWs(s, 1) IN
    IF k > Len(s) THEN ParseFail
    ELSE IF s[k] \in Lexemes
         THEN IF SkipWs(s, k + 1) > Len(s)
              THEN [ok |-> TRUE, isList |-> FALSE, items |-> <<LexValue(s[k])>>]
              ELSE ParseFail
         ELSE IF s[k] = "[" THEN ParseArray(s, k + 1, <<>>, "first")
              ELSE ParseFail

(***************************************************************************)
(* Outcome of a step: a returned value or a raised exception.              *)
(***************************************************************************)
NoResult == [kind |-> "none", isList |-> FALSE, items |-> <<>>, exc |-> ""]

Return(isList, items) ==
    [kind |-> "return", isList |-> isList, items |-> items, exc |-> ""]

Raise(exc) == [kind |-> "raise", isList |-> FALSE, items |-> <<>>, exc |-> exc]

\* x.get("pursuit_score", 0)
SortKey(x) == IF x.scoreType = "missing" THEN 0 ELSE x.score

\* insert x behind every element whose key is not smaller
RECURSIVE InsertDesc(_, _)
InsertDesc(sorted, x) ==
    IF sorted = <<>> THEN <<x>>
    ELSE IF SortKey(sorted[1]) >= SortKey(x)
         THEN <<sorted[1]>> \o InsertDesc(Tail(sorted), x)
         ELSE <<x>> \o sorted

RECURSIVE StableSortDesc(_)
StableSortDesc(items) ==
    IF items = <<>> THEN <<>>
    ELSE InsertDesc(StableSortDesc(SubSeq(items, 1, Len(items) - 1)),
                    items[Len(items)])

\* sorted(scored, key=lambda x: x.get("pursuit_score", 0), reverse=True)
SortedByScore(items) ==
    IF \E i \in 1..Len(items) : items[i].kind # "object"
    THEN Raise("AttributeError")
    ELSE IF Len(items) >= 2 /\ \E i \in 1..Len(items) : items[i].scoreType = "null"
         THEN Raise("TypeError")
         ELSE Return(TRUE, StableSortDesc(items))

(***************************************************************************)
(* The non-streaming steps, from the reply text to the step's outcome.     *)
(***************************************************************************)
\* mutant: the marker keeps one character less
ScoreMarker_Short(raw) == ParseError(Take(raw, MarkerLen - 1))

\* [{"parse_error": raw[:300]}]
ScoreMarker(raw) == ParseError(Take(raw, MarkerLen))

\* mutant: a value that is not an array is wrapped in a list
ScorePassThrough_Wrap(items) == Return(TRUE, items)

\* return scored  (the parsed value is not a list)
ScorePassThrough(items) == Return(FALSE, items)

\* score_opportunities, from the reply to the return value
ScoreOutcome(text) ==
    LET raw == Defence(text)
        scored == JsonLoads(raw)
    IN  IF scored.ok
        THEN IF scored.isList THEN SortedByScore(scored.items)
                              ELSE ScorePassThrough(scored.items)
        ELSE Return(TRUE, <<ScoreMarker(raw)>>)

\* extract_requirements and match_capabilities, from the reply to the
\* return value: json.loads(raw), or {"parse_error": raw}
ParseOutcome(text) ==
    LET raw == Defence(text)
        parsed == JsonLoads(raw)
    IN  IF parsed.ok THEN Return(parsed.isList, parsed.items)
                     ELSE Return(FALSE, <<ParseError(raw)>>)

StepOutcome(st, text) ==
    IF st = "score" THEN ScoreOutcome(text) ELSE ParseOutcome(text)

\* whether the outcome of a step's model call is a parse-failure marker
IsMarker(out) ==
    /\ out.kind = "return"
    /\ Len(out.items) = 1
    /\ out.items[1].marker

\* mutant: a failed or unparseable call is issued once more
AfterReply_Retry(n, out) ==
    IF out.kind = "raise" \/ IsMarker(out) THEN n + 1 ELSE n

\* the model calls a step has made once its call has come back: the step
\* returns or raises at once, so the count stays as it is
AfterReply(n, out) == n

\* mutant: the guard on the empty list is missing
ScoreNeedsCall_Always(opps) == TRUE

\* if not opportunities: return []
ScoreNeedsCall(opps) == opps # <<>>

\* mutant: the slice keeps the last entries
Sample_Last(opps) ==
    SubSeq(opps, Len(opps) - Min(BatchLimit, Len(opps)) + 1, Len(opps))

\* sample = opportunities[:30]
Sample(opps) == SubSeq(opps, 1, Min(BatchLimit, Len(opps)))

(***************************************************************************)
(* Streaming composer                                                      *)
(***************************************************************************)
KeptPriorities == {"High", "Medium"}

Keep(s) == s.priority \in KeptPriorities

\* mutant: the slice is taken before the filter
Top_SliceFirst(sc) == SelectSeq(Take(sc, TopN), Keep)

\* top = [s for s in scored if s.get("priority") in ("High", "Medium")][:15]
Top(sc) == Take(SelectSeq(sc, Keep), TopN)

\* s.get raises AttributeError on an entry that is not an object
TopRaises(sc) == \E i \in 1..Len(sc) : sc[i].kind # "object"

\* stream_brief: yield text
StreamBriefItem(text) == [form |-> "string", inner |-> "", value |-> text]

\* stream_draft: yield {"text": text}
StreamDraftItem(text) == [form |-> "object", inner |-> "text", value |-> text]

\* stream_draft: yield {"stop_reason": final.stop_reason}
StreamDraftStop(reason) ==
    [form |-> "object", inner |-> "stop_reason", value |-> reason]

StreamItem(st, text) ==
    IF st = "brief" THEN StreamBriefItem(text) ELSE StreamDraftItem(text)

\* the items a generator yields once text_stream is exhausted:
\* stream_draft awaits the final message and yields its stop reason,
\* stream_brief yields nothing more
FinalItems(st, reason) ==
    IF st = "draft" THEN <<StreamDraftStop(reason)>> ELSE <<>>

\* f"data: {json.dumps({'text': chunk})}\n\n"
DataEvent(chunk) ==
    [kind |-> "data", member |-> "text", form |-> chunk.form,
     inner |-> chunk.inner, value |-> chunk.value]

\* f"data: {json.dumps({'error': str(e)})}\n\n"
ErrorEvent(msg) ==
    [kind |-> "data", member |-> "error", form |-> "string", inner |-> "",
     value |-> msg]

\* "data: [DONE]\n\n"
DoneEvent ==
    [kind |-> "done", member |-> "", form |-> "", inner |-> "",
     value |-> "[DONE]"]

\* mutant: the newest chunk is put in front of the earlier ones
Forward_Prepend(evs, chunk) == <<DataEvent(chunk)>> \o evs

\* the body of event_stream's loop: one event per chunk, in order
Forward(evs, chunk) == Append(evs, DataEvent(chunk))

\* mutant: the exception is swallowed
OnStreamError_Silent(evs, msg) == evs

\* except Exception as e: yield the error event
OnStreamError(evs, msg) == Append(evs, ErrorEvent(msg))

\* mutant: the stop reason is yielded twice
StreamEnd_Twice(st, evs, reason) ==
    IF st = "draft"
    THEN Forward(Forward(evs, StreamDraftStop(reason)), StreamDraftStop(reason))
    ELSE evs

\* the events sent after the last fragment of a stream that ends normally
StreamEnd(st, evs, reason) ==
    IF FinalItems(st, reason) = <<>> THEN evs
    ELSE Forward(evs, FinalItems(st, reason)[1])

\* mutant: leaving the block does not close the session
SessionAfterExit_Leak(sess) == sess

\* leaving "async with _async_client.messages.stream(...) as stream": the
\* context manager closes the session it opened
SessionAfterExit(sess) == IF sess = "open" THEN "closed" ELSE sess

(***************************************************************************)
(* Market context builder                                                  *)
(***************************************************************************)
NoDataSentinel == "No aggregate spending data available."

MarketHeader == "Top DoD sub-agencies by contract spend (selected NAICS):"

MarketUnavailable == "Market data unavailable."

\* one entry of the "results" member; an absent key is flagged
SpendResult(hasName, name, hasAmount, amount) ==
    [hasName |-> hasName, name |-> name,
     hasAmount |-> hasAmount, amount |-> amount]

\* the spending-by-category response: results is "absent", "null" or "list"
Spending(results, items) == [results |-> results, items |-> items]

NoSpending == Spending("absent", <<>>)

DigitChars == <<"0", "1", "2", "3", "4", "5", "6", "7", "8", "9">>

RECURSIVE Digits(_)
Digits(n) ==
    IF n < 10 THEN <<DigitChars[n + 1]>>
    ELSE Append(Digits(n \div 10), DigitChars[(n % 10) + 1])

\* a group of exactly three digits
Digits3(n) ==
    <<DigitChars[(n \div 100) + 1], DigitChars[((n \div 10) % 10) + 1],
      DigitChars[(n % 10) + 1]>>

\* f"{amount:,.0f}" for a non-negative whole amount
RECURSIVE FormatAmount(_)
FormatAmount(n) ==
    IF n < 1000 THEN Digits(n)
    ELSE FormatAmount(n \div 1000) \o <<",">> \o Digits3(n % 1000)

\* f"  - {name}: ${amount:,.0f}" with the defaults of r.get
MarketLine(r) ==
    <<" ", " ", "-", " ", IF r.hasName THEN r.name ELSE "Unknown", ":", " ", "$">>
        \o FormatAmount(IF r.hasAmount THEN r.amount ELSE 0)

\* mutant: every result gets a line
ListedResults_All(items) == items

\* results[:10]
ListedResults(items) == Take(items, TopResults)

\* build_market_context: the lines that "\n".join puts together
BuildMarketContext(sp) ==
    IF sp.results # "list" \/ sp.items = <<>>
    THEN << <<NoDataSentinel>> >>
    ELSE << <<MarketHeader>> >>
            \o [i \in 1..Len(ListedResults(sp.items)) |->
                    MarketLine(ListedResults(sp.items)[i])]

(***************************************************************************)
(* Inputs                                                                  *)
(***************************************************************************)
\* a normalized award or solicitation record
RawRecord(src, n) == [source |-> src, id |-> n]

\* awards first, then solicitations, as research() collects them
RecordList(a, o) ==
    [i \in 1..(a + o) |->
        IF i <= a THEN RawRecord("USASpending.gov", i) ELSE RawRecord("SAM.gov", i - a)]

RecordLists == {RecordList(a, o) : a \in 0..MaxAwards, o \in 0..MaxOpps}

RECURSIVE ArrayBody(_)
ArrayBody(ls) ==
    IF ls = <<>> THEN <<>>
    ELSE IF Len(ls) = 1 THEN ls
         ELSE <<ls[1], ",">> \o ArrayBody(Tail(ls))

\* the text of a JSON array of lexemes
ArrayText(ls) == <<"[">> \o ArrayBody(ls) \o <<"]">>

LexemeLists == UNION {[1..n -> Lexemes] : n \in 0..MaxItems}

Pad(n) == [i \in 1..n |-> "x"]

Pads == {0, 1} \cup ((MarkerLen - 1)..(MarkerLen + MaxPadOver))

LowerOpens == {Fence \o <<"\n">>, Fence \o JsonTag \o <<"\n">>,
               Fence \o JsonTag \o <<" ", "\n">>}

UpperOpens == {Fence \o <<"J", "S", "O", "N", "\n">>,
               Fence \o <<"J", "s", "o", "n", "\n">>}

FenceCloses == {<<"\n">> \o Fence, <<"\n">> \o Fence \o <<"\n">>}

\* texts that are valid JSON
JsonBodies == {<<"A">>, <<"F">>, <<"[", "]">>, ArrayText(<<"A", "C">>),
               ArrayText(<<"D", "C", "B">>), <<"[", " ", "C", " ", "]">>}

\* texts that are not
ProseBodies == {<<"x", " ", "x">>, <<"[", "A">>, <<"[", "A", ",", "]">>,
                <<"A", "x">>}

FencedReplies ==
    {o \o b \o c : o \in LowerOpens \cup UpperOpens \cup {<<>>},
                   b \in JsonBodies \cup ProseBodies,
                   c \in FenceCloses \cup {<<>>}}

LongReplies ==
    {o \o Pad(n) \o c : o \in {<<>>, Fence \o JsonTag \o <<"\n">>},
                        n \in Pads, c \in {<<>>, <<"\n">> \o Fence}}

ArrayReplies == {ArrayText(ls) : ls \in LexemeLists}

\* the replies the model can give to a step
Replies(st) ==
    IF st = "score" THEN ArrayReplies \cup FencedReplies \cup LongReplies
                    ELSE FencedReplies \cup LongReplies

PriorityKinds == {"High", "Medium", "Low", "Monitor", "missing", "nondict"}

ScoredEntry(i, p) ==
    IF p = "nondict" THEN JNumber(i) ELSE JObject(i, "int", 5, p)

\* the "scored" member of a /api/brief body: n entries whose priorities
\* repeat with period 3
ScoredLists ==
    {[i \in 1..n |-> ScoredEntry(i, pat[(i % 3) + 1])] :
        n \in 0..MaxScored, pat \in [1..3 -> PriorityKinds]}

Fragments == {"Hello, ", "world."}

StopReasons == {"end_turn", "max_tokens"}

BodyMembers == {"absent", "empty", "object"}

AgencyNames == <<"Navy", "Army", "Air Force">>

Amounts == <<1234567, 0, 999, 1000>>

\* n results whose names and amounts cycle from offsets a and b; every
\* fifth result lacks its name and every seventh its amount
ResultList(n, a, b) ==
    [i \in 1..n |->
        SpendResult(i % 5 # 0, AgencyNames[((i + a) % 3) + 1],
                    i % 7 # 0, Amounts[((i + b) % 4) + 1])]

SpendingInputs ==
    {Spending("absent", <<>>), Spending("null", <<>>)}
        \cup {Spending("list", ResultList(n, a, b)) :
                n \in 0..MaxResults, a \in 0..2, b \in 0..3}

\* what fetch_agency_spending_by_naics does for /api/brief: it raises, or
\* it returns a response
MarketFetches ==
    {[ok |-> FALSE, data |-> NoSpending],
     [ok |-> TRUE, data |-> Spending("list", <<>>)],
     [ok |-> TRUE, data |-> Spending("list", ResultList(1, 0, 0))]}

\* the market data does not depend on the scored list: all fetches are
\* tried with the short lists, one with the others
BriefMarkets(sc) ==
    IF Len(sc) <= MaxMarketScored
    THEN MarketFetches
    ELSE {[ok |-> TRUE, data |-> Spending("list", ResultList(1, 0, 0))]}

(***************************************************************************)
(* The analyze and research handlers: their inputs and decisions.          *)
(***************************************************************************)
DetailLen == 200

\* the form of /api/analyze: an uploaded file (none, a readable PDF, a PDF
\* whose extraction fails, another file) and a text (none, blank, written)
AnalyzeForms ==
    [file : {"none", "pdf", "bad_pdf", "txt"}, text : {"none", "blank", "text"}]

\* mutant: the text is not stripped before it is tested
AnalyzeInput_NoStrip(inp) ==
    IF inp.file # "none"
    THEN IF inp.file = "bad_pdf" THEN "pdf_failure" ELSE "file"
    ELSE IF inp.text # "none" THEN "text" ELSE "missing"

\* where analyze takes raw_text from: a named file wins over the text, a
\* blank text counts as none
AnalyzeInput(inp) ==
    IF inp.file # "none"
    THEN IF inp.file = "bad_pdf" THEN "pdf_failure" ELSE "file"
    ELSE IF inp.text = "text" THEN "text" ELSE "missing"

\* the text handed to extract_requirements
RfpText(inp) ==
    IF AnalyzeInput(inp) = "file" THEN <<"f", "i", "l", "e">>
                                  ELSE <<"r", "f", "p">>

\* mutant: the marker is not looked for
InParseError_Never(out) == "no"

\* "parse_error" in requirements: membership in a list compares elements,
\* in an object it looks for the key, in a number it raises TypeError
InParseError(out) ==
    IF out.isList THEN "no"
    ELSE IF out.items[1].kind = "number" THEN "TypeError"
         ELSE IF out.items[1].marker THEN "yes" ELSE "no"

\* mutant: the detail carries the whole text
MarkerDetail_Whole(raw) == raw

\* requirements['parse_error'][:200]
MarkerDetail(raw) == Take(raw, DetailLen)

\* the body of an error response: HTTPException(detail=...)
ErrorResponse(detail) ==
    [kind |-> "error", value |-> NoResult, raw_count |-> 0, detail |-> detail]

\* {"requirements": requirements, "matched": matched, ...}
AnalyzeResponse(matched) ==
    [kind |-> "analyze", value |-> matched, raw_count |-> 0, detail |-> <<>>]

\* what fetch_recent_awards does: n awards, or an exception
UsaOutcomes ==
    {[ok |-> TRUE, n |-> n] : n \in 0..MaxAwards} \cup {[ok |-> FALSE, n |-> 0]}

\* what the solicitation search does: no key was sent, n solicitations,
\* HTTP 403, another HTTP status error, another exception
SamOutcomes ==
    {[kind |-> k, n |-> 0] : k \in {"no_key", "403", "http_error", "exception"}}
        \cup {[kind |-> "ok", n |-> n] : n \in 0..MaxOpps}

SamFailed(sam) == sam.kind \in {"403", "http_error", "exception"}

\* all_items after both searches
AllItems(usa, sam) == RecordList(usa.n, IF sam.kind = "ok" THEN sam.n ELSE 0)

\* sam_status; "ok" stands for "ok (N opportunities)"
SamStatus(sam) ==
    CASE sam.kind = "no_key" -> "not_configured"
      [] sam.kind = "ok"     -> "ok"
      [] sam.kind = "403"    -> "invalid_key"
      [] OTHER               -> "error"

UsaError == "USASpending.gov error"

ScoringError == "Scoring error"

SamErrors ==
    {"SAM.gov: Invalid or expired API key.", "SAM.gov HTTP", "SAM.gov error"}

\* errors after both searches
CollectErrors(usa, sam) ==
    (IF usa.ok THEN <<>> ELSE <<UsaError>>)
        \o (CASE sam.kind = "403" -> <<"SAM.gov: Invalid or expired API key.">>
              [] sam.kind = "http_error" -> <<"SAM.gov HTTP">>
              [] sam.kind = "exception" -> <<"SAM.gov error">>
              [] OTHER -> <<>>)

\* if not all_items and errors
ShouldAbort(all_items, errs) == all_items = <<>> /\ errs # <<>>

\* mutant: the records handed to the model are counted
RawCount_Sample(all_items) == Len(Sample(all_items))

\* "raw_count": len(all_items)
RawCount(all_items) == Len(all_items)

\* the JSON body research returns
ResearchResponse(sc, all_items) ==
    [kind |-> "research", value |-> sc, raw_count |-> RawCount(all_items),
     detail |-> <<>>]

\* the replies the scoring call of research is answered with: an array that
\* sorts, one object, two texts that do not parse, two arrays whose sort
\* raises
ResearchReplies ==
    {ArrayText(<<"A", "C">>), <<"A">>, <<"x", " ", "x">>, Pad(MarkerLen + 1),
     ArrayText(<<"A", "F">>), ArrayText(<<"E", "A">>)}

(***************************************************************************)
(* State                                                                   *)
(***************************************************************************)
VARIABLES
    pc,             \* position of the current request
    step,           \* the step or endpoint running: "none", "score", "extract",
                    \* "match", "brief", "draft"
    opportunities,  \* argument of score_opportunities
    scored,         \* argument of stream_brief
    payload,        \* data placed in the prompt of the last model call
    calls,          \* model calls made for the current request
    reply,          \* text of the model's reply to the step
    result,         \* outcome of the step
    events,         \* SSE events the consumer has received
    delivered,      \* fragments the provider has emitted
    session,        \* provider streaming session: "none", "open", "closed"
    ending,         \* how the provider stream ended: "", "normal",
                    \* "provider_error", "local_error"
    http,           \* status of the HTTP response, 0 when none was sent
    handler,        \* enclosing route: "none", "analyze", "research"
    requirements,   \* what extract_requirements gave to analyze
    errors,         \* research: the error list
    sam_status,     \* research: the status string of the solicitation search
    response,       \* body of the JSON response of analyze and research
    request,        \* what the client sent to analyze, research or draft
    agency_spending, \* argument of build_market_context
    market_context, \* lines of the market context text
    consumer,       \* consumer of the stream: "none", "connected", "gone"
    stepCalls       \* model calls the running step has made

reqVars == <<handler, requirements, errors, sam_status, response, request>>

marketVars == <<agency_spending, market_context>>

vars == <<pc, step, opportunities, scored, payload, calls, reply, result,
          events, delivered, session, ending, http, reqVars, marketVars,
          consumer, stepCalls>>

streamVars == <<scored, events, delivered, session, ending, http>>

NoResponse ==
    [kind |-> "none", value |-> NoResult, raw_count |-> 0, detail |-> <<>>]

Init ==
    /\ pc = "idle"
    /\ step = "none"
    /\ opportunities = <<>>
    /\ scored = <<>>
    /\ payload = <<>>
    /\ calls = 0
    /\ reply = <<>>
    /\ result = NoResult
    /\ events = <<>>
    /\ delivered = <<>>
    /\ session = "none"
    /\ ending = ""
    /\ http = 0
    /\ handler = "none"
    /\ requirements = NoResult
    /\ errors = <<>>
    /\ sam_status = ""
    /\ response = NoResponse
    /\ request = <<>>
    /\ agency_spending = NoSpending
    /\ market_context = <<>>
    /\ consumer = "none"
    /\ stepCalls = 0

(***************************************************************************)
(* Non-streaming steps                                                     *)
(***************************************************************************)
\* score_opportunities up to the model call
score_opportunities(opps) ==
    /\ pc = "idle"
    /\ step' = "score"
    /\ opportunities' = opps
    /\ IF ScoreNeedsCall(opps)
       THEN /\ payload' = Sample(opps)
            /\ calls' = calls + 1
            /\ stepCalls' = 1
            /\ pc' = "awaitReply"
            /\ result' = result
       ELSE /\ result' = Return(TRUE, <<>>)
            /\ pc' = "done"
            /\ UNCHANGED <<payload, calls, stepCalls>>
    /\ UNCHANGED <<reply, streamVars>>
    /\ UNCHANGED <<reqVars, marketVars, consumer>>

\* extract_requirements up to the model call
extract_requirements ==
    /\ pc = "idle"
    /\ step' = "extract"
    /\ payload' = <<"r", "f", "p">>
    /\ calls' = calls + 1
    /\ stepCalls' = 1
    /\ pc' = "awaitReply"
    /\ UNCHANGED <<opportunities, reply, result, streamVars>>
    /\ UNCHANGED <<reqVars, marketVars, consumer>>

\* match_capabilities up to the model call
match_capabilities(req) ==
    /\ pc = "idle"
    /\ step' = "match"
    /\ payload' = <<req>>
    /\ calls' = calls + 1
    /\ stepCalls' = 1
    /\ pc' = "awaitReply"
    /\ UNCHANGED <<opportunities, reply, result, streamVars>>
    /\ UNCHANGED <<reqVars, marketVars, consumer>>

\* _client.messages.create returns: the rest of the step
ModelReply(text) ==
    /\ pc = "awaitReply"
    /\ reply' = text
    /\ result' = StepOutcome(step, text)
    /\ calls' = AfterReply(calls, result')
    /\ stepCalls' = AfterReply(stepCalls, result')
    /\ pc' = "done"
    /\ UNCHANGED <<step, opportunities, payload, streamVars>>
    /\ UNCHANGED <<reqVars, marketVars, consumer>>

\* _client.messages.create raises
ModelError ==
    /\ pc = "awaitReply"
    /\ result' = Raise("ProviderError")
    /\ calls' = AfterReply(calls, result')
    /\ stepCalls' = AfterReply(stepCalls, result')
    /\ pc' = "done"
    /\ UNCHANGED <<step, opportunities, payload, reply, streamVars>>
    /\ UNCHANGED <<reqVars, marketVars, consumer>>

(***************************************************************************)
(* Streaming endpoints                                                     *)
(***************************************************************************)
\* POST /api/brief: the market context is fetched and built, then the
\* handler returns the streaming response
brief(sc, fetch) ==
    /\ pc = "idle"
    /\ step' = "brief"
    /\ scored' = sc
    /\ agency_spending' = fetch.data
    /\ market_context' = IF fetch.ok THEN BuildMarketContext(fetch.data)
                                     ELSE << <<MarketUnavailable>> >>
    /\ consumer' = "connected"
    /\ pc' = "open"
    /\ UNCHANGED <<opportunities, payload, calls, reply, result, events,
                   delivered, session, ending, http>>
    /\ UNCHANGED <<reqVars, stepCalls>>

\* build_market_context called on a spending response
build_market_context(sp) ==
    /\ pc = "idle"
    /\ step' = "market"
    /\ agency_spending' = sp
    /\ market_context' = BuildMarketContext(sp)
    /\ pc' = "done"
    /\ UNCHANGED <<opportunities, payload, calls, reply, result, streamVars,
                   reqVars, consumer, stepCalls>>

\* POST /api/draft: rejected unless both members are present and non-empty
draft(req, mat) ==
    /\ pc = "idle"
    /\ step' = "draft"
    /\ request' = <<req, mat>>
    /\ IF req # "object" \/ mat # "object"
       THEN http' = 422 /\ pc' = "done" /\ consumer' = consumer
       ELSE http' = http /\ pc' = "open" /\ consumer' = "connected"
    /\ UNCHANGED <<opportunities, scored, payload, calls, reply, result,
                   events, delivered, session, ending>>
    /\ UNCHANGED <<handler, requirements, errors, sam_status, response,
                   marketVars, stepCalls>>

\* stream_brief fails while it trims the list, before any model call
ComposeRaises ==
    /\ pc = "open"
    /\ step = "brief"
    /\ TopRaises(scored)
    /\ events' = OnStreamError(events, "AttributeError")
    /\ ending' = "local_error"
    /\ pc' = "closing"
    /\ UNCHANGED <<step, opportunities, scored, payload, calls, reply, result,
                   delivered, session, http>>
    /\ UNCHANGED <<reqVars, marketVars, consumer, stepCalls>>

\* the prompt is built and the provider session opens
OpenSession ==
    /\ pc = "open"
    /\ step = "brief" => ~TopRaises(scored)
    /\ payload' = IF step = "brief" THEN Top(scored)
                                    ELSE <<"req_slim", "matched_slim">>
    /\ calls' = calls + 1
    /\ stepCalls' = 1
    /\ session' = "open"
    /\ pc' = "streaming"
    /\ UNCHANGED <<step, opportunities, scored, reply, result, events,
                   delivered, ending, http>>
    /\ UNCHANGED <<reqVars, marketVars, consumer>>

\* the prompt is built and the provider refuses the session
OpenSessionFails ==
    /\ pc = "open"
    /\ step = "brief" => ~TopRaises(scored)
    /\ payload' = IF step = "brief" THEN Top(scored)
                                    ELSE <<"req_slim", "matched_slim">>
    /\ calls' = calls + 1
    /\ stepCalls' = 1
    /\ events' = OnStreamError(events, "ProviderError")
    /\ ending' = "provider_error"
    /\ pc' = "closing"
    /\ UNCHANGED <<step, opportunities, scored, reply, result, delivered,
                   session, http>>
    /\ UNCHANGED <<reqVars, marketVars, consumer>>

\* async for text in stream.text_stream: yield; the endpoint forwards it
Fragment(text) ==
    /\ pc = "streaming"
    /\ Len(delivered) < MaxFrags
    /\ delivered' = Append(delivered, text)
    /\ events' = Forward(events, StreamItem(step, text))
    /\ UNCHANGED <<pc, step, opportunities, scored, payload, calls, reply,
                   result, session, ending, http>>
    /\ UNCHANGED <<reqVars, marketVars, consumer, stepCalls>>

\* the provider signals end-of-stream; stream_draft then yields the stop
\* reason of the final message
EndOfStream(reason) ==
    /\ pc = "streaming"
    /\ events' = StreamEnd(step, events, reason)
    /\ session' = "closed"
    /\ ending' = "normal"
    /\ pc' = "closing"
    /\ UNCHANGED <<step, opportunities, scored, payload, calls, reply, result,
                   delivered, http>>
    /\ UNCHANGED <<reqVars, marketVars, consumer, stepCalls>>

\* the provider fails: while iterating text_stream, or in
\* stream_draft's get_final_message after the last fragment
StreamFails ==
    /\ pc = "streaming"
    /\ events' = OnStreamError(events, "ProviderError")
    /\ session' = "closed"
    /\ ending' = "provider_error"
    /\ pc' = "closing"
    /\ UNCHANGED <<step, opportunities, scored, payload, calls, reply, result,
                   delivered, http>>
    /\ UNCHANGED <<reqVars, marketVars, consumer, stepCalls>>

\* yield "data: [DONE]\n\n"
Done ==
    /\ pc = "closing"
    /\ events' = Append(events, DoneEvent)
    /\ pc' = "done"
    /\ UNCHANGED <<step, opportunities, scored, payload, calls, reply, result,
                   delivered, session, ending, http>>
    /\ UNCHANGED <<reqVars, marketVars, consumer, stepCalls>>

(***************************************************************************)
(* POST /api/analyze                                                       *)
(***************************************************************************)
\* the input is read and extract_requirements makes its model call; the
\* length cut of truncate_rfp changes the text only
analyze(inp) ==
    /\ pc = "idle"
    /\ handler' = "analyze"
    /\ request' = inp
    /\ IF AnalyzeInput(inp) \in {"missing", "pdf_failure"}
       THEN /\ http' = 422
            /\ response' = ErrorResponse(<<AnalyzeInput(inp)>>)
            /\ pc' = "done"
            /\ UNCHANGED <<step, payload, calls, stepCalls>>
       ELSE /\ step' = "extract"
            /\ payload' = RfpText(inp)
            /\ calls' = calls + 1
            /\ stepCalls' = 1
            /\ pc' = "awaitExtract"
            /\ UNCHANGED <<http, response>>
    /\ UNCHANGED <<opportunities, scored, reply, result, events, delivered,
                   session, ending, requirements, errors, sam_status,
                   marketVars, consumer>>

\* extract_requirements returns; the marker check; match_capabilities
\* makes its model call
AnalyzeExtractReply(text) ==
    /\ pc = "awaitExtract"
    /\ LET out == ParseOutcome(text)
           chk == InParseError(out)
       IN  /\ requirements' = out
           /\ IF chk = "no"
              THEN /\ step' = "match"
                   /\ payload' = out.items
                   /\ calls' = AfterReply(calls, out) + 1
                   /\ stepCalls' = 1
                   /\ reply' = <<>>
                   /\ result' = NoResult
                   /\ pc' = "awaitMatch"
                   /\ UNCHANGED <<http, response>>
              ELSE /\ http' = 500
                   /\ response' =
                        ErrorResponse(IF chk = "yes"
                                      THEN MarkerDetail(out.items[1].text)
                                      ELSE <<"TypeError">>)
                   /\ reply' = text
                   /\ result' = out
                   /\ calls' = AfterReply(calls, out)
                   /\ stepCalls' = AfterReply(stepCalls, out)
                   /\ pc' = "done"
                   /\ step' = step
                   /\ payload' = payload
    /\ UNCHANGED <<opportunities, scored, events, delivered, session, ending,
                   handler, errors, sam_status, request, marketVars, consumer>>

\* the model call of extract_requirements raises
AnalyzeExtractError ==
    /\ pc = "awaitExtract"
    /\ result' = Raise("ProviderError")
    /\ requirements' = result'
    /\ calls' = AfterReply(calls, result')
    /\ stepCalls' = AfterReply(stepCalls, result')
    /\ http' = 500
    /\ response' = ErrorResponse(<<"Requirement extraction failed">>)
    /\ pc' = "done"
    /\ UNCHANGED <<step, opportunities, scored, payload, reply, events,
                   delivered, session, ending, handler, errors, sam_status,
                   request, marketVars, consumer>>

\* match_capabilities returns and analyze answers
AnalyzeMatchReply(text) ==
    /\ pc = "awaitMatch"
    /\ reply' = text
    /\ result' = ParseOutcome(text)
    /\ calls' = AfterReply(calls, result')
    /\ stepCalls' = AfterReply(stepCalls, result')
    /\ IF result'.kind = "raise"
       THEN /\ http' = 500
            /\ response' = ErrorResponse(<<"Capability matching failed">>)
       ELSE /\ http' = 200
            /\ response' = AnalyzeResponse(result')
    /\ pc' = "done"
    /\ UNCHANGED <<step, opportunities, scored, payload, events, delivered,
                   session, ending, handler, requirements, errors, sam_status,
                   request, marketVars, consumer>>

\* the model call of match_capabilities raises
AnalyzeMatchError ==
    /\ pc = "awaitMatch"
    /\ result' = Raise("ProviderError")
    /\ calls' = AfterReply(calls, result')
    /\ stepCalls' = AfterReply(stepCalls, result')
    /\ http' = 500
    /\ response' = ErrorResponse(<<"Capability matching failed">>)
    /\ pc' = "done"
    /\ UNCHANGED <<step, opportunities, scored, payload, reply, events,
                   delivered, session, ending, handler, requirements, errors,
                   sam_status, request, marketVars, consumer>>

(***************************************************************************)
(* POST /api/research                                                      *)
(***************************************************************************)
\* both searches, the abort test, and score_opportunities up to its model
\* call
research(usa, sam) ==
    /\ pc = "idle"
    /\ handler' = "research"
    /\ request' = <<usa, sam>>
    /\ LET all_items == AllItems(usa, sam)
           errs == CollectErrors(usa, sam)
       IN  /\ opportunities' = all_items
           /\ errors' = errs
           /\ sam_status' = SamStatus(sam)
           /\ IF ShouldAbort(all_items, errs)
              THEN /\ http' = 502
                   /\ response' = ErrorResponse(errs)
                   /\ pc' = "done"
                   /\ UNCHANGED <<step, payload, calls, stepCalls>>
              ELSE IF all_items # <<>> /\ ScoreNeedsCall(all_items)
                   THEN /\ step' = "score"
                        /\ payload' = Sample(all_items)
                        /\ calls' = calls + 1
                        /\ stepCalls' = 1
                        /\ pc' = "awaitScore"
                        /\ UNCHANGED <<http, response>>
                   ELSE /\ http' = 200
                        /\ response' =
                             ResearchResponse(Return(TRUE, <<>>), all_items)
                        /\ pc' = "done"
                        /\ UNCHANGED <<step, payload, calls, stepCalls>>
    /\ UNCHANGED <<scored, reply, result, events, delivered, session, ending,
                   requirements, marketVars, consumer>>

\* score_opportunities returns or raises while it sorts; research answers
ResearchScoreReply(text) ==
    /\ pc = "awaitScore"
    /\ reply' = text
    /\ result' = ScoreOutcome(text)
    /\ calls' = AfterReply(calls, result')
    /\ stepCalls' = AfterReply(stepCalls, result')
    /\ IF result'.kind = "raise"
       THEN /\ errors' = Append(errors, ScoringError)
            /\ response' = ResearchResponse(Return(TRUE, <<>>), opportunities)
       ELSE /\ errors' = errors
            /\ response' = ResearchResponse(result', opportunities)
    /\ http' = 200
    /\ pc' = "done"
    /\ UNCHANGED <<step, opportunities, scored, payload, events, delivered,
                   session, ending, handler, requirements, sam_status,
                   request, marketVars, consumer>>

\* the model call of score_opportunities raises; research answers
ResearchScoreError ==
    /\ pc = "awaitScore"
    /\ result' = Raise("ProviderError")
    /\ calls' = AfterReply(calls, result')
    /\ stepCalls' = AfterReply(stepCalls, result')
    /\ errors' = Append(errors, ScoringError)
    /\ response' = ResearchResponse(Return(TRUE, <<>>), opportunities)
    /\ http' = 200
    /\ pc' = "done"
    /\ UNCHANGED <<step, opportunities, scored, payload, reply, events,
                   delivered, session, ending, handler, requirements,
                   sam_status, request, marketVars, consumer>>

(***************************************************************************)
(* The consumer goes away                                                  *)
(***************************************************************************)
\* the client disconnects while the provider session is open: the
\* response task is cancelled and nothing more is sent
Disconnect ==
    /\ pc = "streaming"
    /\ consumer = "connected"
    /\ consumer' = "gone"
    /\ pc' = "cancelled"
    /\ UNCHANGED <<step, opportunities, scored, payload, calls, reply, result,
                   events, delivered, session, ending, http, reqVars,
                   marketVars, stepCalls>>

\* the generator is finalised at its yield inside
\* "async with _async_client.messages.stream(...)": the block is left and
\* the session closed
Teardown ==
    /\ pc = "cancelled"
    /\ session' = SessionAfterExit(session)
    /\ ending' = "cancelled"
    /\ pc' = "done"
    /\ UNCHANGED <<step, opportunities, scored, payload, calls, reply, result,
                   events, delivered, http, reqVars, marketVars, consumer,
                   stepCalls>>

\* the next request starts from fresh request-scoped state
NewRequest ==
    /\ pc = "done"
    /\ pc' = "idle"
    /\ step' = "none"
    /\ opportunities' = <<>>
    /\ scored' = <<>>
    /\ payload' = <<>>
    /\ calls' = 0
    /\ reply' = <<>>
    /\ result' = NoResult
    /\ events' = <<>>
    /\ delivered' = <<>>
    /\ session' = "none"
    /\ ending' = ""
    /\ http' = 0
    /\ handler' = "none"
    /\ requirements' = NoResult
    /\ errors' = <<>>
    /\ sam_status' = ""
    /\ response' = NoResponse
    /\ request' = <<>>
    /\ agency_spending' = NoSpending
    /\ market_context' = <<>>
    /\ consumer' = "none"
    /\ stepCalls' = 0

\* a caller invokes score_opportunities on some list of records
CallScore ==
    /\ pc = "idle"
    /\ \E opps \in RecordLists : score_opportunities(opps)

\* a caller invokes match_capabilities on some requirements value
CallMatch == \E l \in Lexemes : match_capabilities(LexValue(l))

\* the model answers the pending call with some text
ReceiveReply ==
    /\ pc = "awaitReply"
    /\ \E text \in Replies(step) : ModelReply(text)

\* a client posts some scored list to /api/brief
PostBrief ==
    /\ pc = "idle"
    /\ \E sc \in ScoredLists : \E fetch \in BriefMarkets(sc) : brief(sc, fetch)

\* a caller invokes build_market_context on some spending response
CallMarket ==
    /\ pc = "idle"
    /\ \E sp \in SpendingInputs : build_market_context(sp)

\* a client posts some body to /api/draft
PostDraft ==
    \E req \in BodyMembers, mat \in BodyMembers : draft(req, mat)

\* the provider emits the next fragment
ReceiveFragment == \E text \in Fragments : Fragment(text)

\* the provider ends the stream with some stop reason
ReceiveEnd == \E reason \in StopReasons : EndOfStream(reason)

\* a client posts some form to /api/analyze
PostAnalyze ==
    /\ pc = "idle"
    /\ \E inp \in AnalyzeForms : analyze(inp)

\* the model answers the extraction call of analyze
ReceiveExtractReply ==
    /\ pc = "awaitExtract"
    /\ \E text \in Replies("extract") : AnalyzeExtractReply(text)

\* the model answers the matching call of analyze
ReceiveMatchReply ==
    /\ pc = "awaitMatch"
    /\ \E text \in Replies("match") : AnalyzeMatchReply(text)

\* a client posts to /api/research and the two searches do something
PostResearch ==
    /\ pc = "idle"
    /\ \E usa \in UsaOutcomes, sam \in SamOutcomes : research(usa, sam)

\* the model answers the scoring call of research
ReceiveScoreReply ==
    /\ pc = "awaitScore"
    /\ \E text \in ResearchReplies : ResearchScoreReply(text)

Next ==
    \/ CallScore
    \/ PostAnalyze
    \/ ReceiveExtractReply
    \/ AnalyzeExtractError
    \/ ReceiveMatchReply
    \/ AnalyzeMatchError
    \/ PostResearch
    \/ ReceiveScoreReply
    \/ ResearchScoreError
    \/ Disconnect
    \/ Teardown
    \/ extract_requirements
    \/ CallMatch
    \/ ReceiveReply
    \/ ModelError
    \/ PostBrief
    \/ CallMarket
    \/ PostDraft
    \/ ComposeRaises
    \/ OpenSession
    \/ OpenSessionFails
    \/ ReceiveFragment
    \/ ReceiveEnd
    \/ StreamFails
    \/ Done
    \/ NewRequest

Spec == Init /\ [][Next]_vars

\* the streaming endpoints alone; the scored list plays no part in how a
\* stream is torn down, so the short lists stand for all
ShortScoredLists == {sc \in ScoredLists : Len(sc) <= MaxMarketScored}

PostShortBrief ==
    /\ pc = "idle"
    /\ \E sc \in ShortScoredLists : \E fetch \in BriefMarkets(sc) :
          brief(sc, fetch)

StreamNext ==
    \/ PostShortBrief
    \/ PostDraft
    \/ ComposeRaises
    \/ OpenSession
    \/ OpenSessionFails
    \/ ReceiveFragment
    \/ ReceiveEnd
    \/ StreamFails
    \/ Done
    \/ Disconnect
    \/ Teardown
    \/ NewRequest

\* the event loop keeps running: a cancelled response task is unwound and
\* its generators are finalised
FairSpec == Init /\ [][StreamNext]_vars /\ WF_vars(Teardown)

(***************************************************************************)
(* Properties                                                              *)
(***************************************************************************)
\* a reply of the model has been received and handled by the running step
Replied ==
    /\ step \in {"score", "extract", "match"}
    /\ pc = "done"
    /\ calls > 0
    /\ result.exc # "ProviderError"

\* the reply as json.loads sees it
Parsed == JsonLoads(Defence(reply))

\* C1: for the empty RawRecord list score_opportunities returns the empty
\* list and makes no call to the model provider.
C1_EmptyListNoCall ==
    (step = "score" /\ opportunities = <<>>) =>
        /\ pc = "done"
        /\ result.kind = "return"
        /\ result.isList
        /\ result.items = <<>>
        /\ calls = 0

C1_Witness == step = "score" /\ opportunities = <<>> /\ pc = "done"

\* C2: the payload sent to the model holds exactly the first 30 records of
\* the input in input order when the input is longer than 30, and every
\* record in input order otherwise.
C2_PayloadFirst30 ==
    (step = "score" /\ calls > 0) =>
        /\ Len(opportunities) > BatchLimit => Len(payload) = BatchLimit
        /\ Len(opportunities) <= BatchLimit => Len(payload) = Len(opportunities)
        /\ \A i \in 1..Len(payload) : payload[i] = opportunities[i]

C2_Witness ==
    step = "score" /\ calls > 0 /\ Len(opportunities) > BatchLimit

\* out is a stable descending sort of inp by pursuit score
IsStableDescSort(out, inp) ==
    /\ Len(out) = Len(inp)
    /\ \E p \in [1..Len(inp) -> 1..Len(inp)] :
          /\ \A i, j \in 1..Len(inp) : i # j => p[i] # p[j]
          /\ \A i \in 1..Len(inp) : out[i] = inp[p[i]]
          /\ \A i, j \in 1..Len(inp) :
                i < j => \/ SortKey(out[i]) > SortKey(out[j])
                         \/ SortKey(out[i]) = SortKey(out[j]) /\ p[i] < p[j]

\* C3: when the reply parses as a JSON array, score_opportunities returns
\* the elements of the array sorted in descending order of score, elements
\* of equal score in the order of the reply.
C3_ArraySortedStable ==
    (step = "score" /\ Replied /\ Parsed.ok /\ Parsed.isList) =>
        /\ result.kind = "return"
        /\ result.isList
        /\ IsStableDescSort(result.items, Parsed.items)

\* every element of the array is an object whose score is a number or absent
WellFormed(items) ==
    \A i \in 1..Len(items) :
        items[i].kind = "object" /\ items[i].scoreType # "null"

\* the stable descending sort holds for the arrays of well-formed elements
ScoreSortsWellFormedArrays ==
    (step = "score" /\ Replied /\ Parsed.ok /\ Parsed.isList
       /\ WellFormed(Parsed.items)) =>
        /\ result.kind = "return"
        /\ result.isList
        /\ IsStableDescSort(result.items, Parsed.items)

\* C4: when the reply parses as JSON and is not an array,
\* score_opportunities returns the parsed value unchanged: not sorted, not
\* wrapped, not turned into a parse-failure marker.
C4_NonArrayPassThrough ==
    (step = "score" /\ Replied /\ Parsed.ok /\ ~Parsed.isList) =>
        /\ result.kind = "return"
        /\ ~result.isList
        /\ result.items = Parsed.items
        /\ \A i \in 1..Len(result.items) : ~result.items[i].marker

C4_Witness ==
    /\ step = "score" /\ Replied
    /\ \E l \in Lexemes : Strip(reply) = <<l>> /\ result.items = <<LexValue(l)>>

\* the step returned a parse-failure marker carrying text
ReturnsMarker(text) ==
    /\ result.kind = "return"
    /\ Len(result.items) = 1
    /\ result.items[1].marker
    /\ result.items[1].text = text

\* C5 (as claimed): in every non-streaming step a reply that fails to parse
\* yields a marker with the first 300 characters of the raw reply, returned
\* as a value.
C5_MarkerFirst300 ==
    (Replied /\ ~Parsed.ok) =>
        ReturnsMarker(SubSeq(Defence(reply), 1, Min(MarkerLen, Len(Defence(reply)))))

\* C5 (amended): a reply that fails to parse yields a marker returned as a
\* value; score_opportunities returns it in a list of one and keeps the
\* first 300 characters of the trimmed, fence-stripped reply, while
\* extract_requirements and match_capabilities keep that text whole.
C5_MarkerPerStep ==
    (Replied /\ ~Parsed.ok) =>
        IF step = "score"
        THEN /\ result.isList
             /\ ReturnsMarker(SubSeq(Defence(reply), 1,
                                     Min(MarkerLen, Len(Defence(reply)))))
        ELSE /\ ~result.isList
             /\ ReturnsMarker(Defence(reply))

C5_Witness ==
    /\ Replied /\ ~Parsed.ok
    /\ step = "extract"
    /\ Len(Defence(reply)) > MarkerLen
    /\ Len(result.items[1].text) > MarkerLen

\* the reply is the JSON text body between a leading fence line taken from
\* opens and a trailing fence line
Fenced(opens, body) ==
    \E o \in opens, c \in FenceCloses : reply = o \o body \o c

\* C6 (as claimed): a reply that wraps a JSON text in a leading fence line
\* with an optional "json" tag in any letter case and a trailing fence line
\* gives the same result as the bare JSON text.
C6_FenceAnyCase ==
    Replied =>
        \A body \in JsonBodies :
            Fenced(LowerOpens \cup UpperOpens, body) =>
                result = StepOutcome(step, body)

\* C6 (amended): the same, for a fence line whose optional tag is "json" in
\* lower case.
C6_FenceLowerCase ==
    Replied =>
        \A body \in JsonBodies :
            Fenced(LowerOpens, body) => result = StepOutcome(step, body)

C6_Witness ==
    /\ Replied
    /\ reply = Fence \o JsonTag \o <<"\n">> \o ArrayText(<<"A", "C">>)
                 \o <<"\n">> \o Fence
    /\ result.isList
    /\ Len(result.items) = 2

\* event e carries fragment text as a text event
IsTextEventOf(e, text) ==
    e.kind = "data" /\ e.member = "text" /\ e.value = text

IsErrorEvent(e) == e.kind = "data" /\ e.member = "error"

\* C7: when the provider emits fragments and then signals normal
\* end-of-stream, the consumer of the brief endpoint observes one text event
\* per fragment, in delivery order, then [DONE], and no error event.
C7_BriefNormalStream ==
    /\ (step = "brief" /\ pc = "streaming") =>
          /\ Len(events) = Len(delivered)
          /\ \A i \in 1..Len(delivered) :
                events[i] = [kind |-> "data", member |-> "text",
                             form |-> "string", inner |-> "",
                             value |-> delivered[i]]
    /\ (step = "brief" /\ pc = "done" /\ ending = "normal") =>
          /\ Len(events) = Len(delivered) + 1
          /\ \A i \in 1..Len(delivered) :
                events[i] = [kind |-> "data", member |-> "text",
                             form |-> "string", inner |-> "",
                             value |-> delivered[i]]
          /\ events[Len(events)].kind = "done"
          /\ \A i \in 1..Len(events) : ~IsErrorEvent(events[i])

C7_Witness ==
    /\ step = "brief" /\ pc = "done" /\ ending = "normal"
    /\ delivered = <<"Hello, ", "world.">>

\* C8: when the provider fails after k fragments, the consumer observes
\* those k text events in order, then an error event, then [DONE]; a
\* normally completed stream carries no error event, so the two are never
\* the same sequence.
C8_FailedStream ==
    /\ (pc = "done" /\ ending = "provider_error") =>
          /\ Len(events) = Len(delivered) + 2
          /\ \A i \in 1..Len(delivered) : IsTextEventOf(events[i], delivered[i])
          /\ IsErrorEvent(events[Len(delivered) + 1])
          /\ events[Len(delivered) + 2].kind = "done"
    /\ (pc = "done" /\ ending = "normal") =>
          \A i \in 1..Len(events) : ~IsErrorEvent(events[i])

C8_Witness ==
    /\ pc = "done" /\ ending = "provider_error"
    /\ step = "draft"
    /\ Len(delivered) = 1

\* C9: in both deployments every data event before [DONE] that is not an
\* error event is an object whose "text" member is a fragment of the
\* provider, a string.
C9_SameEventShape ==
    \A i \in 1..Len(events) :
        (events[i].kind = "data" /\ ~IsErrorEvent(events[i])) =>
            /\ events[i].member = "text"
            /\ events[i].form = "string"
            /\ \E j \in 1..Len(delivered) : events[i].value = delivered[j]

\* positions of the entries whose priority is High or Medium
KeptAt(sc) == {i \in 1..Len(sc) : sc[i].priority \in {"High", "Medium"}}

\* the k-th of them
KthKept(sc, k) ==
    CHOOSE i \in KeptAt(sc) : Cardinality({j \in KeptAt(sc) : j <= i}) = k

\* C10: the list stream_brief places in the prompt is the first 15 entries,
\* in input order, of the entries whose priority is High or Medium.
C10_TopFifteen ==
    (step = "brief" /\ calls > 0) =>
        /\ Len(payload) = Min(TopN, Cardinality(KeptAt(scored)))
        /\ \A k \in 1..Len(payload) : payload[k] = scored[KthKept(scored, k)]

C10_Witness ==
    /\ step = "brief" /\ calls > 0
    /\ Cardinality(KeptAt(scored)) > TopN
    /\ \E i \in 1..TopN : scored[i].priority \notin {"High", "Medium"}

\* the whole number a formatted amount denotes, separators left out
RECURSIVE AmountValue(_, _)
AmountValue(chars, acc) ==
    IF chars = <<>> THEN acc
    ELSE IF chars[1] = "," THEN AmountValue(Tail(chars), acc)
         ELSE AmountValue(Tail(chars),
                          10 * acc + (CHOOSE d \in 0..9 : DigitChars[d + 1] = chars[1]))

\* line shows result r: its name, or Unknown, and its amount, or 0
ShowsResult(line, r) ==
    /\ Len(line) > 8
    /\ line[5] = (IF r.hasName THEN r.name ELSE "Unknown")
    /\ AmountValue(SubSeq(line, 9, Len(line)), 0)
          = (IF r.hasAmount THEN r.amount ELSE 0)

\* C11: build_market_context returns exactly the sentinel when the results
\* are empty or absent, never an empty text; otherwise a header and one
\* line per result for at most the first 10 results, in input order; it
\* makes no model call.
C11_MarketContext ==
    (step = "market" /\ pc = "done") =>
        /\ calls = 0
        /\ market_context # <<>>
        /\ IF agency_spending.results # "list" \/ Len(agency_spending.items) = 0
           THEN market_context = << <<"No aggregate spending data available.">> >>
           ELSE /\ Len(market_context)
                     = 1 + Min(TopResults, Len(agency_spending.items))
                /\ market_context[1] = <<MarketHeader>>
                /\ \A i \in 2..Len(market_context) :
                      ShowsResult(market_context[i], agency_spending.items[i - 1])

C11_Witness ==
    /\ step = "market" /\ pc = "done"
    /\ Len(agency_spending.items) > TopResults
    /\ Len(market_context) = TopResults + 1

\* the request lacks its input
MissingInput ==
    \/ /\ handler = "analyze"
       /\ request.file = "none"
       /\ request.text \in {"none", "blank"}
    \/ /\ step = "draft"
       /\ (request[1] # "object" \/ request[2] # "object")

\* C12: an analyze request with neither a text nor a file, and a draft
\* request that lacks requirements or matched data, is rejected with an
\* error response and no model call is made for it.
C12_RejectedBeforeCall ==
    MissingInput =>
        /\ pc = "done"
        /\ http = 422
        /\ calls = 0
        /\ session = "none"
        /\ events = <<>>

C12_Witness ==
    /\ handler = "analyze"
    /\ request.file = "none"
    /\ request.text = "blank"
    /\ http = 422

SamSearchFailed == handler = "research" /\ SamFailed(request[2])

\* C13: when the solicitation search fails, the research request does not
\* fail because of it: the failure becomes the status "invalid_key" or
\* "error" and an entry of the error list, and the records of the award
\* search are scored.
C13_SamFailureDowngraded ==
    SamSearchFailed =>
        /\ sam_status \in {"invalid_key", "error"}
        /\ \E i \in 1..Len(errors) : errors[i] \in SamErrors
        /\ http = 502 => ~request[1].ok
        /\ request[1].n > 0 =>
              /\ step = "score"
              /\ payload = Take(AllItems(request[1], request[2]), BatchLimit)

\* what does hold when the solicitation search fails
SamFailureRecorded ==
    SamSearchFailed =>
        /\ sam_status \in {"invalid_key", "error"}
        /\ \E i \in 1..Len(errors) : errors[i] \in SamErrors
        /\ opportunities # <<>> => (step = "score" /\ http # 502)
        /\ opportunities = <<>> => (pc = "done" /\ http = 502)

\* C14: the research request is aborted with an error if and only if the
\* award search failed and no record was collected; in every other case
\* it returns a normal response.
C14_AbortIffAwardSearchFailed ==
    (handler = "research" /\ pc = "done") =>
        /\ http = 502 <=> (~request[1].ok /\ opportunities = <<>>)
        /\ http # 502 => (http = 200 /\ response.kind = "research")

\* what does hold: the abort needs no record and a failure of either search
AbortsIffNothingAndError ==
    (handler = "research" /\ pc = "done") =>
        /\ http = 502 <=>
              /\ opportunities = <<>>
              /\ (~request[1].ok \/ SamFailed(request[2]))
        /\ http # 502 => (http = 200 /\ response.kind = "research")

\* a step of a handler got a reply that is not JSON
NonJsonReply(h, st) ==
    /\ handler = h
    /\ step = st
    /\ Replied
    /\ ~Parsed.ok

\* C15 as stated: a reply that is not JSON, in any step of a pipeline,
\* never makes the request fail; the request completes with a normal
\* response that carries the marker.
C15_NonJsonNeverFails ==
    \A h \in {"analyze", "research"} : \A st \in {"extract", "match", "score"} :
        NonJsonReply(h, st) =>
            /\ http = 200
            /\ response.kind = h

\* C15: a reply that is not JSON to the scoring call of research or to the
\* matching call of analyze gives a normal response that carries the
\* marker; to the extraction call of analyze it gives HTTP 500 whose
\* detail holds the first 200 characters of the text, and no matching call.
C15_MarkerSurfaced ==
    /\ NonJsonReply("research", "score") =>
          /\ http = 200
          /\ response.kind = "research"
          /\ response.value = Return(TRUE, <<ParseError(Take(Defence(reply), MarkerLen))>>)
    /\ NonJsonReply("analyze", "match") =>
          /\ http = 200
          /\ response.kind = "analyze"
          /\ response.value = Return(FALSE, <<ParseError(Defence(reply))>>)
    /\ NonJsonReply("analyze", "extract") =>
          /\ http = 500
          /\ response.kind = "error"
          /\ response.detail = Take(Defence(reply), DetailLen)
          /\ calls = 1

C15_Witness ==
    /\ NonJsonReply("analyze", "extract")
    /\ Len(Defence(reply)) > DetailLen

\* the field contract of a step's output, as far as the model tells
\* values apart: one object that is not the marker
Conforms(out) ==
    /\ out.kind = "return"
    /\ ~out.isList
    /\ Len(out.items) = 1
    /\ out.items[1].kind = "object"
    /\ ~out.items[1].marker

\* C16: the value handed from one step to the next step's model call
\* conforms to its field contract; a reply of another shape and a marker
\* are never handed on.
C16_OnlyConformingHandedOn ==
    (handler = "analyze" /\ step = "match") => Conforms(requirements)

\* C17: when the consumer disconnects while the provider session is open,
\* the session is eventually closed.
C17_SessionEventuallyClosed ==
    (consumer = "gone" /\ session = "open") ~> (session = "closed")

C17_Witness ==
    /\ consumer = "gone"
    /\ session = "closed"
    /\ ending = "cancelled"
    /\ Len(delivered) = 1

\* C18: within one request each step makes at most one model call,
\* whatever the call's outcome.
C18_OneCallPerStep ==
    /\ stepCalls <= 1
    /\ calls <= (IF handler = "analyze" THEN 2 ELSE 1)
    /\ (handler = "analyze" /\ step = "extract") => calls <= 1

C18_Witness ==
    /\ handler = "analyze"
    /\ step = "extract"
    /\ pc = "done"
    /\ IsMarker(result)
    /\ calls = 1

\* C19: in an analyze request the matching call is made only after the
\* extraction call has returned, its input is the whole output of the
\* extractor, and after a provider error or a marker from the extractor no
\* matching call is made.
C19_AnalyzeSequential ==
    /\ (handler = "analyze" /\ pc = "awaitExtract") =>
          (step = "extract" /\ calls = 1)
    /\ (handler = "analyze" /\ step = "match") =>
          /\ requirements.kind = "return"
          /\ ~IsMarker(requirements)
          /\ payload = requirements.items
          /\ calls = 2
    /\ (handler = "analyze"
          /\ (requirements.kind = "raise" \/ IsMarker(requirements))) =>
          /\ step = "extract"
          /\ pc = "done"
          /\ http = 500
          /\ calls = 1

C19_Witness ==
    /\ handler = "analyze"
    /\ step = "match"
    /\ pc = "done"
    /\ http = 200
    /\ requirements = Return(FALSE, <<LexValue("A")>>)

\* the scoring step of a research request failed
ScoringFailed ==
    /\ handler = "research"
    /\ step = "score"
    /\ pc = "done"
    /\ result.kind = "raise"

\* C20: when records were collected and the scoring call fails, research
\* still returns a normal response: the scored list is empty, the error
\* list has a scoring-error entry and raw_count is the number of records
\* collected from both searches.
C20_ScoringFailure ==
    ScoringFailed =>
        /\ http = 200
        /\ response.kind = "research"
        /\ response.value = Return(TRUE, <<>>)
        /\ errors[Len(errors)] = ScoringError
        /\ response.raw_count =
              request[1].n + (IF request[2].kind = "ok" THEN request[2].n ELSE 0)

C20_Witness ==
    /\ ScoringFailed
    /\ result.exc = "ProviderError"
    /\ response.raw_count > BatchLimit

\* positions of the stop-reason items among the events
StopAt(evs) ==
    {i \in 1..Len(evs) : evs[i].kind = "data" /\ evs[i].inner = "stop_reason"}

\* C21: stream_draft yields a stop-reason item exactly once, as its last
\* item and after every text fragment, when the provider stream completes
\* normally; when the provider fails no stop-reason item is yielded.
C21_StopReasonLast ==
    step = "draft" =>
        /\ ending = "normal" =>
              /\ StopAt(events) = {Len(delivered) + 1}
              /\ \A i \in 1..Len(delivered) :
                    events[i] = DataEvent(StreamDraftItem(delivered[i]))
              /\ events[Len(delivered) + 1].value \in StopReasons
              /\ \A i \in (Len(delivered) + 2)..Len(events) :
                    events[i] = DoneEvent
        /\ ending # "normal" => StopAt(events) = {}
        /\ ending = "provider_error" =>
              \A i \in 1..Len(delivered) :
                  events[i] = DataEvent(StreamDraftItem(delivered[i]))

C21_Witness ==
    /\ step = "draft"
    /\ pc = "done"
    /\ ending = "normal"
    /\ Len(delivered) = 2
    /\ StopAt(events) = {3}

====
